---------------------------- MODULE Spec2Model ----------------------------
(***************************************************************************)
(* Nextalk: the socket.io presence registry (backend/src/lib/socket.js)    *)
(* and the message controller's real-time delivery                         *)
(* (backend/src/controllers/message.controller.js).                        *)
(*                                                                         *)
(* Every socket.io handler is one synchronous JavaScript callback, so each *)
(* handler is one atomic action.  sendMessages is an async function: it is *)
(* cut at its two awaits (the cloudinary upload and newMessage.save()).    *)
(***************************************************************************)
EXTENDS Integers, Sequences, FiniteSets, TLC

\* ------------------------------------------------------------------ bounds
\* sockets the server accepts in one run
MaxConns == 2
\* POST /api/messages/send/:id requests in one run
MaxMsgs == 1
\* the sockets one client makes with io()
MaxClientSockets == 2
\* the auth requests one client sends (checkAuth, logIn, signUp, logOut)
MaxAuthCalls == 3
\* the same two in the longer run of one user who logs out and in again
MaxDeferredSockets == 3
MaxDeferredAuthCalls == 4
\* the changes of the selected user
MaxSelects == 2
\* the times the server side of a client's socket goes away
MaxDrops == 1
\* the failed attempts of one socket while the server is mostly up
MaxErrors == 1
\* the newMessage events shown in the chat
MaxReceived == 1
\* the messages one user sends from the chat window
MaxPosts == 2
\* the length of the chat while messages are sent
MaxChat == 2
\* the chats one user opens while the history loads are followed
MaxLoads == 3
\* the sockets and the auth requests of one user who logs out, then in
MaxSessionSockets == 2
MaxSessionAuthCalls == 3
\* the connectDB calls made or scheduled, the mongoose.connect calls they
\* may start, and the promise hops a caller may be away from its call
MaxDbCalls == 4
MaxConnects == 3
MaxHops == 1

\* ------------------------------------------------------------- value sets
\* ids of the users in the database (req.user._id values)
Users == {"u1", "u2"}
\* the JavaScript value undefined: handshake.query.userId when the client
\* sent no userId, and the result of reading a missing property
JsUndefined == "<undefined>"
\* the string a socket.io client puts on the wire for { userId: undefined }
UndefinedString == "undefined"
\* who really operates a connecting client; Anonymous holds no login
Anonymous == "<anonymous>"
\* the clients that connect, as <<query userId, operator>>: a logged-in user
\* sending authUser._id, a client sending another user's id, a client
\* sending no userId, and a client sending the text "undefined"
Handshakes ==
    {<<u, u>> : u \in Users}
        \cup {<<"u1", Anonymous>>, <<JsUndefined, Anonymous>>,
              <<UndefinedString, Anonymous>>}
\* the requests made, as <<req.user._id, the id in /send/:id, has image>>:
\* u1 writes to u1 itself, u2 writes to u1 without and with an attachment
SendInputs ==
    {<<"u1", "u1", FALSE>>, <<"u2", "u1", FALSE>>, <<"u2", "u1", TRUE>>}
\* getReceiverSocketId's result for a missing key (socket ids start at 1)
NoSocket == 0

\* JavaScript truthiness of a query value: if (userId)
Truthy(v) == v # JsUndefined
\* ToPropertyKey: obj[undefined] addresses the property named "undefined"
PropertyKey(v) == IF v = JsUndefined THEN UndefinedString ELSE v

VARIABLES
    sockets,        \* socket id -> [userId, owner, connected, closes]
    userSocketMap,  \* the object {userId: socketId}, in insertion order
    emitted,        \* the events the handler that ran last has emitted
    requests,       \* request id -> the state of one sendMessages call;
                    \* lookupAt: how many socket handlers had run at its lookup
    messages,       \* the Message collection: the saved documents
    events,         \* history: every event emitted, in emission order
    trace,          \* history: the connection and disconnect handlers run
                    \* (and, where arrivals are kept, the requests arrived)
    dead,           \* the connected sockets whose peer no longer answers
    client,         \* one browser: its two stores, sockets and timers
    db,             \* lib/db.js: cached, the connects made, the connectDB
                    \* calls and the promise jobs waiting to run
    presence        \* socket id -> the client end of the connection: the
                    \* getOnlineUsers events in flight, and onlineUsers

history == <<events, trace>>
aside == <<events, trace, dead, client, presence, db>>
server == <<sockets, userSocketMap, emitted, requests, messages, dead>>
vars == <<sockets, userSocketMap, emitted, requests, messages, events, trace,
          dead, client, presence, db>>

\* ------------------------------------------- the object userSocketMap
\* userSocketMap[k]
MapGet(m, k) ==
    IF \E i \in 1..Len(m) : m[i].k = k
    THEN LET i == CHOOSE j \in 1..Len(m) : m[j].k = k IN m[i].v
    ELSE NoSocket

\* a registration that leaves an existing property alone (first connect wins)
MapSetKeepFirst(m, k, v) ==
    IF \E i \in 1..Len(m) : m[i].k = k THEN m ELSE Append(m, [k |-> k, v |-> v])

\* userSocketMap[k] = v : an existing property keeps its place
MapSet(m, k, v) ==
    IF \E i \in 1..Len(m) : m[i].k = k
    THEN [i \in 1..Len(m) |-> IF m[i].k = k THEN [k |-> k, v |-> v] ELSE m[i]]
    ELSE Append(m, [k |-> k, v |-> v])

\* a handler that forgets the delete
MapDeleteNothing(m, k) == m

\* delete userSocketMap[k]
MapDelete(m, k) ==
    LET keep(e) == e.k # k IN SelectSeq(m, keep)

\* Object.keys(userSocketMap): the keys in insertion order
ObjectKeys(m) == [i \in 1..Len(m) |-> m[i].k]

\* the set of the elements of a sequence
Range(s) == {s[i] : i \in 1..Len(s)}

\* export function getReceiverSocketId(userId)
getReceiverSocketId(userId) == MapGet(userSocketMap, PropertyKey(userId))

\* the registry as it was after the first k entries of the trace: the
\* connection and disconnect handlers among them, replayed
RECURSIVE RegistryAt(_)
RegistryAt(k) ==
    IF k = 0 THEN <<>>
    ELSE LET h == trace[k]
         IN CASE h.op = "connection" ->
                   IF Truthy(sockets[h.id].userId)
                   THEN MapSet(RegistryAt(k - 1),
                               PropertyKey(sockets[h.id].userId), h.id)
                   ELSE RegistryAt(k - 1)
              [] h.op = "disconnect" ->
                   MapDelete(RegistryAt(k - 1),
                             PropertyKey(sockets[h.id].userId))
              [] OTHER -> RegistryAt(k - 1)

\* the place in the trace where request q arrived
ArrivedAt(q) ==
    CHOOSE k \in 1..Len(trace) : trace[k] = [op |-> "sendMessages", id |-> q]

\* --------------------------------------------------------------- events
NoMsg == [id |-> 0, senderId |-> "", recieverId |-> "", image |-> FALSE]

\* the sockets of the namespace: connected and not yet closed
Connected(ss) == {c \in 1..Len(ss) : ss[c].connected}

\* socket.broadcast.emit in place of io.emit: all but the newest socket
ioEmitBroadcast(ss, m) ==
    [type |-> "getOnlineUsers", room |-> NoSocket,
     to |-> Connected(ss) \ {Len(ss)},
     payload |-> ObjectKeys(m), msg |-> NoMsg]

\* an emit loop that stops at the first socket whose peer is dead
ioEmitAbortOnDead(ss, m) ==
    [type |-> "getOnlineUsers", room |-> NoSocket,
     to |-> {c \in Connected(ss) :
                \A d \in dead \cap Connected(ss) : c < d},
     payload |-> ObjectKeys(m), msg |-> NoMsg]

\* io.emit("getOnlineUsers", Object.keys(userSocketMap))
\* reaches every socket that is in the namespace when it is called
ioEmit(ss, m) ==
    [type |-> "getOnlineUsers", room |-> NoSocket, to |-> Connected(ss),
     payload |-> ObjectKeys(m), msg |-> NoMsg]

\* io.emit("newMessage", newMessage) in place of io.to(...).emit
ioToEmitAll(ss, receiverSocketId, newMessage) ==
    [type |-> "newMessage", room |-> receiverSocketId, to |-> Connected(ss),
     payload |-> <<>>, msg |-> newMessage]

\* io.to(receiverSocketId).emit("newMessage", newMessage)
\* reaches the sockets in the room named by the id: the socket itself
ioToEmit(ss, receiverSocketId, newMessage) ==
    [type |-> "newMessage", room |-> receiverSocketId,
     to |-> Connected(ss) \cap {receiverSocketId},
     payload |-> <<>>, msg |-> newMessage]

\* --------------------------------------------------------- the client
\* the user operating the browser, and the partners of the side bar
Me == "u1"
Partners == {"u2", "u3"}

\* null, as the value of authUser and of selectedUser
JsNull == "<null>"

\* setTimeout(..., 500) of connectSocket
ConnectDelay == 500
\* setTimeout(() => get().connectSocket(), 3000) of "connect_error"
RetryDelay == 3000
\* setTimeout(() => get().subscribeToMessages(), 2000)
SubscribeRetryDelay == 2000
\* reconnectionAttempts: 5: the reconnections one socket tries by itself
ReconnectionAttempts == 5
\* one step of the clock, in milliseconds
TickMs == ConnectDelay

\* the stores when the page has loaded: useAuthStore, useChatStore, the
\* sockets made by io(), the pending timeouts, the auth request in flight,
\* the sendMessages calls (posts) and the getMessages calls (gets) made
ClientInit ==
    [authUser |-> JsNull, Socket |-> NoSocket, selectedUser |-> JsNull,
     messages |-> <<>>, ios |-> <<>>, timers |-> <<>>, http |-> "none",
     registered |-> NoSocket, authCalls |-> 0, selects |-> 0, drops |-> 0,
     posts |-> <<>>, gets |-> <<>>]

\* ---------------------------------------------------------- lib/db.js
\* null, as the value of cached.conn and cached.promise (connects are
\* numbered from 1)
NoConnect == 0

\* cached = { conn: null, promise: null }; no connect made, no call, no
\* job; driver: the code that ran last is the driver's, settling a connect
DbInit ==
    [conn |-> NoConnect, promise |-> NoConnect, connects |-> <<>>,
     calls |-> <<>>, jobs |-> <<>>, driver |-> FALSE]

\* ----------------------------------------------------------------- Init
Init ==
    /\ sockets = <<>>
    /\ userSocketMap = <<>>
    /\ emitted = <<>>
    /\ requests = <<>>
    /\ messages = {}
    /\ events = <<>>
    /\ trace = <<>>
    /\ dead = {}
    /\ client = ClientInit
    /\ presence = <<>>
    /\ db = DbInit

\* ------------------------------------------------- io.on("connection")
\* A client with handshake query userId q, operated by o, connects.
Connection(q, o) ==
    /\ Len(sockets) < MaxConns
    /\ LET id == Len(sockets) + 1
           ss == Append(sockets, [userId |-> q, owner |-> o,
                                  connected |-> TRUE, closes |-> 0])
           m  == IF Truthy(q) THEN MapSet(userSocketMap, PropertyKey(q), id)
                 ELSE userSocketMap
       IN /\ sockets' = ss
          /\ userSocketMap' = m
          /\ emitted' = <<ioEmit(ss, m)>>
    /\ UNCHANGED <<requests, messages>>

\* a disconnect handler that broadcasts before it deletes
disconnectHandlerEmitFirst(c) ==
    LET ss == [sockets EXCEPT ![c].connected = FALSE,
                              ![c].closes = sockets[c].closes + 1]
    IN /\ sockets' = ss
       /\ emitted' = <<ioEmit(ss, userSocketMap)>>
       /\ userSocketMap' =
              MapDelete(userSocketMap, PropertyKey(sockets[c].userId))
       /\ UNCHANGED <<requests, messages>>

\* a disconnect handler that hands the entry back to the newest connection
\* of the same identity that is still open
disconnectHandlerFallsBack(c) ==
    LET ss == [sockets EXCEPT ![c].connected = FALSE,
                              ![c].closes = sockets[c].closes + 1]
        k  == PropertyKey(sockets[c].userId)
        open == {d \in Connected(ss) :
                    Truthy(ss[d].userId) /\ PropertyKey(ss[d].userId) = k}
        m  == IF open = {} THEN MapDelete(userSocketMap, k)
              ELSE MapSet(userSocketMap, k,
                          CHOOSE d \in open : \A e \in open : e <= d)
    IN /\ sockets' = ss
       /\ userSocketMap' = m
       /\ emitted' = <<ioEmit(ss, m)>>
       /\ UNCHANGED <<requests, messages>>

\* --------------------------------------------- socket.on("disconnect")
\* The handler body: delete, then broadcast.  socket.io has taken the
\* socket out of the namespace before it emits "disconnect".
disconnectHandler(c) ==
    LET ss == [sockets EXCEPT ![c].connected = FALSE,
                              ![c].closes = sockets[c].closes + 1]
        m  == MapDelete(userSocketMap, PropertyKey(sockets[c].userId))
    IN /\ sockets' = ss
       /\ userSocketMap' = m
       /\ emitted' = <<ioEmit(ss, m)>>
       /\ UNCHANGED <<requests, messages>>

\* a close for which the server never runs the disconnect handler
DisconnectUnheard(c) ==
    /\ c \in 1..Len(sockets)
    /\ sockets[c].connected
    /\ sockets' = [sockets EXCEPT ![c].connected = FALSE,
                                  ![c].closes = sockets[c].closes + 1]
    /\ emitted' = <<>>
    /\ UNCHANGED <<userSocketMap, requests, messages>>

\* socket.io emits "disconnect" once for a connected socket
Disconnect(c) ==
    /\ c \in 1..Len(sockets)
    /\ sockets[c].connected
    /\ disconnectHandler(c)

\* the close transition of an already closed connection processed again
DisconnectAgain(c) ==
    /\ c \in 1..Len(sockets)
    /\ ~sockets[c].connected
    /\ sockets[c].closes = 1
    /\ disconnectHandler(c)

\* ------------------------------------------------------- sendMessages
\* the Message document built from the request
NewMessage(q) ==
    [id |-> q, senderId |-> requests[q].senderId,
     recieverId |-> requests[q].recieverId, image |-> requests[q].image]

\* POST /send/:id by the authenticated user s, up to the first await
sendMessages(s, r, image) ==
    /\ Len(requests) < MaxMsgs
    /\ requests' = Append(requests,
           [senderId |-> s, recieverId |-> r, image |-> image,
            pc |-> IF image THEN "upload" ELSE "save", status |-> 0,
            lookupAt |-> 0])
    /\ emitted' = <<>>
    /\ UNCHANGED <<sockets, userSocketMap, messages>>

\* await cloudinary.uploader.upload(image) resolves
UploadOk(q) ==
    /\ q \in 1..Len(requests)
    /\ requests[q].pc = "upload"
    /\ requests' = [requests EXCEPT ![q].pc = "save"]
    /\ emitted' = <<>>
    /\ UNCHANGED <<sockets, userSocketMap, messages>>

\* the upload rejects: catch, 500
UploadFail(q) ==
    /\ q \in 1..Len(requests)
    /\ requests[q].pc = "upload"
    /\ requests' = [requests EXCEPT ![q].pc = "failed", ![q].status = 500]
    /\ emitted' = <<>>
    /\ UNCHANGED <<sockets, userSocketMap, messages>>

\* a handler that answers 404 when the recipient has no registered socket
SaveOkReportMiss(q) ==
    /\ q \in 1..Len(requests)
    /\ requests[q].pc = "save"
    /\ LET newMessage == NewMessage(q)
           receiverSocketId == getReceiverSocketId(newMessage.recieverId)
       IN /\ messages' = messages \cup {newMessage}
          /\ emitted' = IF receiverSocketId # NoSocket
                        THEN <<ioToEmit(sockets, receiverSocketId, newMessage)>>
                        ELSE <<>>
          /\ requests' = [requests EXCEPT
                 ![q].pc = "done",
                 ![q].status = IF receiverSocketId # NoSocket THEN 201 ELSE 404,
                 ![q].lookupAt = Len(trace)]
    /\ UNCHANGED <<sockets, userSocketMap>>

\* a handler that takes the recipient's entry out once it has delivered
SaveOkUnregisters(q) ==
    /\ q \in 1..Len(requests)
    /\ requests[q].pc = "save"
    /\ LET newMessage == NewMessage(q)
           receiverSocketId == getReceiverSocketId(newMessage.recieverId)
       IN /\ messages' = messages \cup {newMessage}
          /\ emitted' = IF receiverSocketId # NoSocket
                        THEN <<ioToEmit(sockets, receiverSocketId, newMessage)>>
                        ELSE <<>>
          /\ userSocketMap' =
                 MapDelete(userSocketMap, PropertyKey(newMessage.recieverId))
    /\ requests' = [requests EXCEPT ![q].pc = "done", ![q].status = 201,
                                    ![q].lookupAt = Len(trace)]
    /\ UNCHANGED sockets

\* a handler that delivers to the socket the recipient had when the
\* request arrived
SaveOkEarlierPresence(q) ==
    /\ q \in 1..Len(requests)
    /\ requests[q].pc = "save"
    /\ LET newMessage == NewMessage(q)
           receiverSocketId ==
               MapGet(RegistryAt(ArrivedAt(q)),
                      PropertyKey(newMessage.recieverId))
       IN /\ messages' = messages \cup {newMessage}
          /\ emitted' = IF receiverSocketId # NoSocket
                        THEN <<ioToEmit(sockets, receiverSocketId, newMessage)>>
                        ELSE <<>>
    /\ requests' = [requests EXCEPT ![q].pc = "done", ![q].status = 201,
                                    ![q].lookupAt = Len(trace)]
    /\ UNCHANGED <<sockets, userSocketMap>>

\* await newMessage.save() resolves: look the receiver up, emit, answer 201
SaveOk(q) ==
    /\ q \in 1..Len(requests)
    /\ requests[q].pc = "save"
    /\ LET newMessage == NewMessage(q)
           receiverSocketId == getReceiverSocketId(newMessage.recieverId)
       IN /\ messages' = messages \cup {newMessage}
          /\ emitted' = IF receiverSocketId # NoSocket
                        THEN <<ioToEmit(sockets, receiverSocketId, newMessage)>>
                        ELSE <<>>
    /\ requests' = [requests EXCEPT ![q].pc = "done", ![q].status = 201,
                                    ![q].lookupAt = Len(trace)]
    /\ UNCHANGED <<sockets, userSocketMap>>

\* a catch block that notifies the recipient of the message it could not save
SaveFailNotifies(q) ==
    /\ q \in 1..Len(requests)
    /\ requests[q].pc = "save"
    /\ LET newMessage == NewMessage(q)
           receiverSocketId == getReceiverSocketId(newMessage.recieverId)
       IN emitted' = IF receiverSocketId # NoSocket
                     THEN <<ioToEmit(sockets, receiverSocketId, newMessage)>>
                     ELSE <<>>
    /\ requests' = [requests EXCEPT ![q].pc = "failed", ![q].status = 500]
    /\ UNCHANGED <<sockets, userSocketMap, messages>>

\* the save rejects: catch, 500
SaveFail(q) ==
    /\ q \in 1..Len(requests)
    /\ requests[q].pc = "save"
    /\ requests' = [requests EXCEPT ![q].pc = "failed", ![q].status = 500]
    /\ emitted' = <<>>
    /\ UNCHANGED <<sockets, userSocketMap, messages>>

\* ----------------------------------------------------- specifications
\* the server: every client of Handshakes, every request of SendInputs
Next ==
    \/ \E h \in Handshakes : Connection(h[1], h[2]) /\ UNCHANGED aside
    \/ \E c \in 1..MaxConns : Disconnect(c) /\ UNCHANGED aside
    \/ \E i \in SendInputs :
          sendMessages(i[1], i[2], i[3]) /\ UNCHANGED aside
    \/ \E q \in 1..MaxMsgs : UploadOk(q) /\ UNCHANGED aside
    \/ \E q \in 1..MaxMsgs : UploadFail(q) /\ UNCHANGED aside
    \/ \E q \in 1..MaxMsgs : SaveOk(q) /\ UNCHANGED aside
    \/ \E q \in 1..MaxMsgs : SaveFail(q) /\ UNCHANGED aside

Spec == Init /\ [][Next]_vars

\* the same server when a transport-close event fires a second time
NextRefire ==
    \/ Next
    \/ \E c \in 1..MaxConns : DisconnectAgain(c) /\ UNCHANGED aside

SpecRefire == Init /\ [][NextRefire]_vars

\* a connected socket's peer dies: its transport is still open on the
\* server, which has not yet noticed (no disconnect event so far), and
\* what is written to it is lost
PeerDies(c) ==
    /\ c \in Connected(sockets)
    /\ dead \cap Connected(sockets) = {}
    /\ dead' = dead \cup {c}
    /\ emitted' = <<>>
    /\ UNCHANGED <<sockets, userSocketMap, requests, messages>>

\* the same server with logged-in clients only, when one session at a
\* time has a dead peer
NextDeadPeer ==
    \/ \E u \in Users : Connection(u, u) /\ UNCHANGED aside
    \/ \E c \in 1..MaxConns : Disconnect(c) /\ UNCHANGED aside
    \/ \E c \in 1..MaxConns :
          PeerDies(c) /\ UNCHANGED <<history, client, presence, db>>
    \/ \E i \in SendInputs :
          sendMessages(i[1], i[2], i[3]) /\ UNCHANGED aside
    \/ \E q \in 1..MaxMsgs : UploadOk(q) /\ UNCHANGED aside
    \/ \E q \in 1..MaxMsgs : UploadFail(q) /\ UNCHANGED aside
    \/ \E q \in 1..MaxMsgs : SaveOk(q) /\ UNCHANGED aside
    \/ \E q \in 1..MaxMsgs : SaveFail(q) /\ UNCHANGED aside

SpecDeadPeer == Init /\ [][NextDeadPeer]_vars

\* the same server with logged-in clients only, and its history kept:
\* every emitted event, and every socket handler run
Emitted ==
    events' = events \o emitted' /\ UNCHANGED <<dead, client, presence, db>>
Ran(op, id) == trace' = Append(trace, [op |-> op, id |-> id])

NextHistory ==
    \/ \E u \in Users :
          Connection(u, u) /\ Emitted /\ Ran("connection", Len(sockets'))
    \/ \E c \in 1..MaxConns : Disconnect(c) /\ Emitted /\ Ran("disconnect", c)
    \/ \E i \in SendInputs :
          sendMessages(i[1], i[2], i[3]) /\ Emitted /\ UNCHANGED trace
    \/ \E q \in 1..MaxMsgs : UploadOk(q) /\ Emitted /\ UNCHANGED trace
    \/ \E q \in 1..MaxMsgs : UploadFail(q) /\ Emitted /\ UNCHANGED trace
    \/ \E q \in 1..MaxMsgs : SaveOk(q) /\ Emitted /\ UNCHANGED trace
    \/ \E q \in 1..MaxMsgs : SaveFail(q) /\ Emitted /\ UNCHANGED trace

SpecHistory == Init /\ [][NextHistory]_vars

\* ------------------------------------------- the client: the two stores
\* Each operation takes the client c and gives the client after it.

\* get().Socket?.connected
SocketConnected(c) ==
    /\ c.Socket # NoSocket
    /\ c.ios[c.Socket].status = "connected"

\* setTimeout(fn, delay); the io callback keeps the authUser it closed over
setTimeout(c, fn, delay, authUser) ==
    [c EXCEPT !.timers = Append(@, [fn |-> fn, left |-> delay \div TickMs,
                                    authUser |-> authUser])]

\* connectSocket: return if there is no user or the stored socket is
\* connected, else make the socket in 500 ms
connectSocket(c) ==
    IF c.authUser = JsNull \/ SocketConnected(c)
    THEN c
    ELSE setTimeout(c, "io", ConnectDelay, c.authUser)

\* the callback of that timeout: io(baseUrl, {query: {userId}}) makes a
\* socket that starts connecting, and set({ Socket: socket })
io(c, authUser) ==
    [c EXCEPT !.ios = Append(@, [userId |-> authUser, status |-> "connecting",
                                 errors |-> 0, listeners |-> <<>>]),
              !.Socket = Len(c.ios) + 1]

\* a disconnectSocket that drops the stored socket without closing it
disconnectSocketForgets(c) == [c EXCEPT !.Socket = NoSocket]

\* disconnectSocket: Socket.disconnect() and set({ Socket: null }); the
\* server's disconnect handler then deletes the user's registry entry
disconnectSocket(c) ==
    IF c.Socket # NoSocket
    THEN [c EXCEPT !.ios[c.Socket].status = "closed",
                   !.registered =
                       IF c.ios[c.Socket].status = "connected"
                       THEN NoSocket ELSE @,
                   !.Socket = NoSocket]
    ELSE c

\* subscribeToMessages: without a selected user nothing; without a socket
\* connectSocket() and, if there is a user, a retry in 2 s; else
\* socket.on("newMessage", handler), the handler keeping the selectedUser
\* read at this call
subscribeToMessages(c) ==
    IF c.selectedUser = JsNull THEN c
    ELSE IF c.Socket = NoSocket
    THEN LET d == connectSocket(c)
         IN IF d.authUser # JsNull
            THEN setTimeout(d, "subscribeToMessages", SubscribeRetryDelay,
                            JsNull)
            ELSE d
    ELSE [c EXCEPT !.ios[c.Socket].listeners = Append(@, c.selectedUser)]

\* unsubscribeFromMessages: socket.off("newMessage") on the stored socket
unsubscribeFromMessages(c) ==
    IF c.Socket = NoSocket THEN c
    ELSE [c EXCEPT !.ios[c.Socket].listeners = <<>>]

\* the effect of ChatWindow when HomePage shows a selected user
\* (getMessages only reads the history; it is not followed here)
ChatWindowEffect(c) ==
    IF c.authUser # JsNull /\ c.selectedUser # JsNull
    THEN subscribeToMessages(c) ELSE c

\* the "newMessage" handlers of socket s run in the order they were added:
\* each appends the message if its sender is the user the handler kept
RECURSIVE newMessageHandlers(_, _, _)
newMessageHandlers(ls, msgs, newMessage) ==
    IF ls = <<>> THEN msgs
    ELSE newMessageHandlers(
            Tail(ls),
            IF newMessage.senderId = Head(ls)
            THEN Append(msgs, newMessage) ELSE msgs,
            newMessage)

\* the client goes to c; the server is not involved
Becomes(c) ==
    /\ client' = c
    /\ UNCHANGED <<server, history, presence, db>>

\* ------------------------------------------ the client: what can happen
\* App's effect calls checkAuth when the page loads; the login and signup
\* pages show while authUser is null, the logout button while it is set
Request(kind) ==
    /\ client.http = "none"
    /\ CASE kind = "checkAuth" -> client.authCalls = 0
         [] kind = "logOut" -> client.authCalls > 0 /\ client.authUser # JsNull
         [] OTHER -> client.authCalls > 0 /\ client.authUser = JsNull
    /\ Becomes([client EXCEPT !.http = kind, !.authCalls = @ + 1])

\* checkAuth, the request resolved: set authUser, connectSocket()
CheckAuthOk ==
    /\ client.http = "checkAuth"
    /\ Becomes(ChatWindowEffect(connectSocket(
          [client EXCEPT !.http = "none", !.authUser = Me])))

\* checkAuth, the request rejected: set({ authUser: null })
CheckAuthFail ==
    /\ client.http = "checkAuth"
    /\ Becomes([client EXCEPT !.http = "none", !.authUser = JsNull])

\* logIn, the request resolved: set authUser, connectSocket()
LogInOk ==
    /\ client.http = "logIn"
    /\ Becomes(ChatWindowEffect(connectSocket(
          [client EXCEPT !.http = "none", !.authUser = Me])))

\* signUp, the request resolved: set authUser
SignUpOk ==
    /\ client.http = "signUp"
    /\ Becomes(ChatWindowEffect(
          [client EXCEPT !.http = "none", !.authUser = Me]))

\* logOut, the request resolved: set({ authUser: null }),
\* disconnectSocket(); HomePage unmounts, ChatWindow's cleanup runs
LogOutOk ==
    /\ client.http = "logOut"
    /\ LET c == disconnectSocket(
                   [client EXCEPT !.http = "none", !.authUser = JsNull])
       IN Becomes(IF c.selectedUser # JsNull
                  THEN unsubscribeFromMessages(c) ELSE c)

\* logIn, signUp or logOut, the request rejected: only a toast
RequestFail ==
    /\ client.http \in {"logIn", "signUp", "logOut"}
    /\ Becomes([client EXCEPT !.http = "none"])

\* a click in the side bar: setSelectedUser(p); ChatWindow's effect is
\* cleaned up if it was mounted (unsubscribeFromMessages) and runs again
SelectUser(p) ==
    /\ client.authUser # JsNull
    /\ client.selectedUser # p
    /\ LET c == [client EXCEPT !.selectedUser = p, !.selects = @ + 1]
       IN Becomes(ChatWindowEffect(
             IF client.selectedUser # JsNull
             THEN unsubscribeFromMessages(c) ELSE c))

\* the close button of the chat: setSelectedUser(null), ChatWindow unmounts
CloseChat ==
    /\ client.authUser # JsNull
    /\ client.selectedUser # JsNull
    /\ Becomes(unsubscribeFromMessages(
          [client EXCEPT !.selectedUser = JsNull, !.selects = @ + 1]))

\* 500 ms pass while no timeout is due
Tick ==
    /\ client.timers # <<>>
    /\ \A i \in 1..Len(client.timers) : client.timers[i].left > 0
    /\ Becomes([client EXCEPT !.timers =
          [i \in 1..Len(client.timers) |->
              [client.timers[i] EXCEPT !.left = @ - 1]]])

\* the timers without the i-th
Without(ts, i) == SubSeq(ts, 1, i - 1) \o SubSeq(ts, i + 1, Len(ts))

\* a due timeout runs its callback; of two timeouts with the same delay
\* the one set first runs first
Fire(i) ==
    /\ i \in 1..Len(client.timers)
    /\ client.timers[i].left = 0
    /\ \A j \in 1..(i - 1) :
          ~ /\ client.timers[j].left = 0
            /\ client.timers[j].fn = client.timers[i].fn
    /\ LET t == client.timers[i]
           c == [client EXCEPT !.timers = Without(@, i)]
       IN Becomes(CASE t.fn = "io" -> io(c, t.authUser)
                    [] t.fn = "connectSocket" -> connectSocket(c)
                    [] t.fn = "subscribeToMessages" -> subscribeToMessages(c))

\* socket s gets connected: the server's connection handler registers it
\* for its user, and socket.on("connect") runs set({ Socket: socket })
ConnectOk(s) ==
    /\ s \in 1..Len(client.ios)
    /\ client.ios[s].status = "connecting"
    /\ Becomes([client EXCEPT !.ios[s].status = "connected",
                              !.ios[s].errors = 0,
                              !.Socket = s,
                              !.registered = s])

\* an attempt of socket s fails: socket.on("connect_error") sets the 3 s
\* timeout; after the first attempt and reconnectionAttempts more the
\* socket stops trying
ConnectError(s) ==
    /\ s \in 1..Len(client.ios)
    /\ client.ios[s].status = "connecting"
    /\ Becomes(setTimeout(
          [client EXCEPT
              !.ios[s].errors = @ + 1,
              !.ios[s].status =
                  IF client.ios[s].errors + 1 > ReconnectionAttempts
                  THEN "failed" ELSE "connecting"],
          "connectSocket", RetryDelay, JsNull))

\* the server side of connected socket s goes away: the server's
\* disconnect handler deletes the user's entry, the socket reconnects
Drop(s) ==
    /\ s \in 1..Len(client.ios)
    /\ client.ios[s].status = "connected"
    /\ Becomes([client EXCEPT !.ios[s].status = "connecting",
                              !.registered = NoSocket,
                              !.drops = @ + 1])

\* a newMessage event from sender arrives on the socket registered for Me
Receive(sender) ==
    /\ client.registered # NoSocket
    /\ client.ios[client.registered].status = "connected"
    /\ LET newMessage == [id |-> Len(client.messages) + 1, senderId |-> sender]
       IN Becomes([client EXCEPT !.messages =
             newMessageHandlers(client.ios[client.registered].listeners,
                                @, newMessage)])

\* the sockets made and the io timeouts still pending
IoTimers(c) == {i \in 1..Len(c.timers) : c.timers[i].fn = "io"}
Sockets(c) == Len(c.ios) + Cardinality(IoTimers(c))

\* the step stays within the bounds of the run
Within ==
    /\ Sockets(client') <= MaxClientSockets
    /\ client'.authCalls <= MaxAuthCalls
    /\ client'.selects <= MaxSelects
    /\ client'.drops <= MaxDrops
    /\ \A s \in 1..Len(client'.ios) : client'.ios[s].errors <= MaxErrors

\* one browser, against a server that is up most of the time
NextClient ==
    \/ \E kind \in {"checkAuth", "logIn", "signUp", "logOut"} :
          Request(kind) /\ Within
    \/ CheckAuthOk /\ Within
    \/ CheckAuthFail /\ Within
    \/ LogInOk /\ Within
    \/ SignUpOk /\ Within
    \/ LogOutOk /\ Within
    \/ RequestFail /\ Within
    \/ \E p \in Partners : SelectUser(p) /\ Within
    \/ CloseChat /\ Within
    \/ Tick /\ Within
    \/ \E i \in 1..Len(client.timers) : Fire(i) /\ Within
    \/ \E s \in 1..MaxClientSockets : ConnectOk(s) /\ Within
    \/ \E s \in 1..MaxClientSockets : ConnectError(s) /\ Within
    \/ \E s \in 1..MaxClientSockets : Drop(s) /\ Within
    \/ \E sender \in Partners :
          Receive(sender) /\ Len(client.messages) < MaxReceived /\ Within

SpecClient == Init /\ [][NextClient]_vars

\* the step stays within the sockets of the run
WithinSockets == Sockets(client') <= MaxClientSockets

\* the browser after one connectSocket call (the one of checkAuth) while
\* the server cannot be reached: no attempt of any socket succeeds
NextUnreachable ==
    \/ Request("checkAuth") /\ WithinSockets
    \/ CheckAuthOk /\ WithinSockets
    \/ Tick /\ WithinSockets
    \/ \E i \in 1..Len(client.timers) : Fire(i) /\ WithinSockets
    \/ \E s \in 1..MaxClientSockets : ConnectError(s) /\ WithinSockets

SpecUnreachable == Init /\ [][NextUnreachable]_vars

\* the step stays within the longer run of one user who logs out and in
WithinDeferred ==
    /\ Sockets(client') <= MaxDeferredSockets
    /\ client'.authCalls <= MaxDeferredAuthCalls
    /\ client'.selects <= MaxSelects

\* the browser against a server that answers and accepts every socket:
\* a longer run of logging in and out, with no failure of any kind
NextDeferred ==
    \/ \E kind \in {"checkAuth", "logIn", "signUp", "logOut"} :
          Request(kind) /\ WithinDeferred
    \/ CheckAuthOk /\ WithinDeferred
    \/ CheckAuthFail /\ WithinDeferred
    \/ LogInOk /\ WithinDeferred
    \/ SignUpOk /\ WithinDeferred
    \/ LogOutOk /\ WithinDeferred
    \/ \E p \in Partners : SelectUser(p) /\ WithinDeferred
    \/ Tick /\ WithinDeferred
    \/ \E i \in 1..Len(client.timers) : Fire(i) /\ WithinDeferred
    \/ \E s \in 1..MaxDeferredSockets : ConnectOk(s) /\ WithinDeferred

SpecDeferred == Init /\ [][NextDeferred]_vars

\* ----------------------------------------------- reading the steps
\* the sockets whose handshake named the property k
SocketsOf(k) ==
    {c \in 1..Len(sockets) :
        Truthy(sockets[c].userId) /\ PropertyKey(sockets[c].userId) = k}

\* the largest element of a non-empty set of numbers
Max(S) == CHOOSE x \in S : \A y \in S : y <= x

IsNewMessage(e) == e.type = "newMessage"
IsGetOnlineUsers(e) == e.type = "getOnlineUsers"

\* the step taken is the connection handler of a new socket
ConnectionStep == Len(sockets') = Len(sockets) + 1

\* the step taken is a run of socket c's disconnect handler
DisconnectStep(c) ==
    /\ c \in 1..Len(sockets)
    /\ Len(sockets') = Len(sockets)
    /\ sockets'[c].closes = sockets[c].closes + 1

\* the step taken is the lookup-and-emit of request q
LookupStep(q) ==
    /\ q \in 1..Len(requests)
    /\ Len(requests') = Len(requests)
    /\ requests[q].pc = "save"
    /\ requests'[q].pc = "done"

\* ------------------------------------------------------------------- C1
\* C1 (guarded unregister): when an identity u has two connections S1 and
\* S2, S2 connected after S1 and still connected, the disconnect handler of
\* S1 leaves getReceiverSocketId(u) at S2.
C1_GuardedUnregister ==
    [][ \A u \in Users : \A s1, s2 \in SocketsOf(u) :
          ( /\ SocketsOf(u) = {s1, s2}
            /\ s1 < s2
            /\ sockets[s2].connected
            /\ DisconnectStep(s1) )
          => getReceiverSocketId(u)' = s2
      ]_vars

\* ------------------------------------------------------------------- C2
\* C2 (last connect wins): after connection events carrying the same userId
\* u, and no disconnect of a connection of u, the registry holds exactly one
\* entry for u and getReceiverSocketId(u) is the most recently connected.
C2_LastConnectWins ==
    \A u \in Users \cup {UndefinedString} :
        ( /\ SocketsOf(u) # {}
          /\ \A c \in 1..Len(sockets) :
                PropertyKey(sockets[c].userId) = u => sockets[c].connected )
        => /\ Cardinality({i \in 1..Len(userSocketMap) :
                              userSocketMap[i].k = u}) = 1
           /\ getReceiverSocketId(u) = Max(SocketsOf(u))

\* two connections of u1, both still connected
C2_Witness ==
    /\ Cardinality(SocketsOf("u1")) >= 2
    /\ \A c \in SocketsOf("u1") : sockets[c].connected
    /\ getReceiverSocketId("u1") = Max(SocketsOf("u1"))

\* ------------------------------------------------------------------- C3
\* C3 (identity is validated): the registry entry of a user u is a
\* connection operated by u, and a newMessage addressed to u reaches only
\* connections operated by u.
C3_IdentityValidated ==
    /\ \A u \in Users :
          getReceiverSocketId(u) # NoSocket
              => sockets[getReceiverSocketId(u)].owner = u
    /\ \A i \in 1..Len(emitted) :
          IsNewMessage(emitted[i])
              => \A c \in emitted[i].to :
                    sockets[c].owner = emitted[i].msg.recieverId

\* ------------------------------------------------------------------- C4
\* C4 (delivery correctness): when a request's message m is persisted and
\* its recipient has a registry entry at the lookup, exactly one newMessage
\* event carrying m unchanged is emitted, to the recipient's registered
\* socket only; when the recipient has no entry, no event is emitted; and no
\* other step emits a newMessage event.
C4_DeliveryCorrectness ==
    [][ /\ \A q \in 1..Len(requests) :
             LookupStep(q) =>
                LET m == NewMessage(q)
                    sid == getReceiverSocketId(m.recieverId)
                IN /\ m \in messages'
                   /\ IF sid # NoSocket
                      THEN /\ Len(emitted') = 1
                           /\ IsNewMessage(emitted'[1])
                           /\ emitted'[1].msg = m
                           /\ emitted'[1].to = {sid}
                      ELSE emitted' = <<>>
        /\ (\E i \in 1..Len(emitted') : IsNewMessage(emitted'[i]))
              => \E q \in 1..Len(requests) : LookupStep(q)
      ]_vars

\* a request was just answered after its message went to the socket that
\* is registered for its recipient
C4_Witness ==
    \E q \in 1..Len(requests) :
        /\ requests[q].pc = "done"
        /\ Len(emitted) = 1
        /\ IsNewMessage(emitted[1])
        /\ emitted[1].msg.id = q
        /\ emitted[1].to = {getReceiverSocketId(requests[q].recieverId)}

\* ------------------------------------------------------------------- C5
\* C5 (broadcast completeness): the connection handler of a connection with
\* identity u emits one getOnlineUsers event that reaches every connected
\* socket, the new one included, and whose payload is the key set of the
\* registry at that moment, so it holds u.
C5_BroadcastCompleteness ==
    [][ (ConnectionStep /\ Truthy(sockets'[Len(sockets')].userId)) =>
          LET c == Len(sockets')
              e == emitted'[1]
          IN /\ Len(emitted') = 1
             /\ IsGetOnlineUsers(e)
             /\ e.to = {x \in 1..Len(sockets') : sockets'[x].connected}
             /\ c \in e.to
             /\ Range(e.payload) =
                   {userSocketMap'[i].k : i \in 1..Len(userSocketMap')}
             /\ Len(e.payload) = Len(userSocketMap')
             /\ PropertyKey(sockets'[c].userId) \in Range(e.payload)
      ]_vars

\* the second of two connected sockets has just registered, and the
\* broadcast of its connection handler went to both
C5_Witness ==
    /\ Len(sockets) = 2
    /\ sockets[1].connected /\ sockets[2].connected
    /\ getReceiverSocketId(sockets[2].userId) = 2
    /\ Len(emitted) = 1
    /\ IsGetOnlineUsers(emitted[1])
    /\ emitted[1].to = {1, 2}
    /\ PropertyKey(sockets[2].userId) \in Range(emitted[1].payload)

\* ------------------------------------------------------------------- C6
\* C6 (identification failure has no registry effect): neither the
\* connection handler nor the disconnect handler of a connection whose
\* handshake carries no userId changes the registry.
C6_NoIdentityNoEffect ==
    [][ /\ (ConnectionStep /\ ~Truthy(sockets'[Len(sockets')].userId))
              => userSocketMap' = userSocketMap
        /\ \A c \in 1..Len(sockets) :
              (DisconnectStep(c) /\ ~Truthy(sockets[c].userId))
                  => userSocketMap' = userSocketMap
      ]_vars

C8_BroadcastPerMutation ==
    [][ userSocketMap' # userSocketMap =>
          /\ Len(emitted') = 1
          /\ IsGetOnlineUsers(emitted'[1])
          /\ emitted'[1].payload = ObjectKeys(userSocketMap)'
      ]_vars

\* a disconnect has removed the entry of a closed socket while another
\* entry stays, and the event emitted last is the broadcast of the keys left
C8_Witness ==
    /\ \E c \in 1..Len(sockets) :
          /\ ~sockets[c].connected
          /\ Truthy(sockets[c].userId)
          /\ getReceiverSocketId(sockets[c].userId) = NoSocket
    /\ Len(userSocketMap) = 1
    /\ Len(emitted) = 1
    /\ IsGetOnlineUsers(emitted[1])
    /\ emitted[1].payload = ObjectKeys(userSocketMap)
    /\ emitted[1].to = {userSocketMap[1].v}

\* ------------------------------------------------------------------- C9
\* C9 (no echo to sender): no newMessage event reaches a connection
\* operated by the sender of its message.
C9_NoEchoToSender ==
    \A i \in 1..Len(emitted) :
        IsNewMessage(emitted[i])
            => \A c \in emitted[i].to :
                  sockets[c].owner # emitted[i].msg.senderId

\* ------------------------------------------------------------------ C10
\* the handlers run so far are: u1 connects, u2 connects, u1 disconnects
Scenario ==
    /\ Len(sockets) = 2
    /\ sockets[1].userId = "u1" /\ sockets[2].userId = "u2"
    /\ trace = << [op |-> "connection", id |-> 1],
                  [op |-> "connection", id |-> 2],
                  [op |-> "disconnect", id |-> 1] >>

\* the getOnlineUsers events emitted so far, in order
Broadcasts == SelectSeq(events, IsGetOnlineUsers)

\* the newMessage events emitted for request q
NewMessageEvents(q) ==
    {i \in 1..Len(events) : IsNewMessage(events[i]) /\ events[i].msg.id = q}

\* C10 (scenario): after u1 connects, u2 connects and u1 disconnects, the
\* broadcasts were [u1], [u1,u2], [u2] in this order, the last one reached
\* u2's socket, the registry is {u2}, and a message from u2 to u1 looked up
\* after that has no newMessage event.
C10_Scenario ==
    Scenario =>
        /\ [i \in 1..Len(Broadcasts) |-> Broadcasts[i].payload]
              = << <<"u1">>, <<"u1", "u2">>, <<"u2">> >>
        /\ Broadcasts[3].to = {2}
        /\ userSocketMap = << [k |-> "u2", v |-> 2] >>
        /\ getReceiverSocketId("u1") = NoSocket
        /\ \A q \in 1..Len(requests) :
              ( /\ requests[q].pc = "done"
                /\ requests[q].senderId = "u2"
                /\ requests[q].recieverId = "u1"
                /\ requests[q].lookupAt = 3 )
              => NewMessageEvents(q) = {}

\* the scenario has run and a message from u2 to u1 was answered after it
C10_Witness ==
    /\ Scenario
    /\ \E q \in 1..Len(requests) :
          /\ requests[q].pc = "done"
          /\ requests[q].status = 201
          /\ requests[q].senderId = "u2"
          /\ requests[q].recieverId = "u1"
          /\ requests[q].lookupAt = 3
          /\ NewMessageEvents(q) = {}


\* ------------------------------------------------------------------ C11
\* the sockets whose peer gets the event e
Reached(e) == e.to \ dead

\* C11 (delivery miss absorbed): the step that looks up the recipient and
\* emits answers 201 with the message persisted, whether the recipient has
\* a registry entry or not and whether its peer is alive or dead; once a
\* request is answered it never changes again and no later step emits a
\* newMessage event for it (no retry, no queue).
C11_DeliveryMissAbsorbed ==
    [][ /\ \A q \in 1..Len(requests) :
             LookupStep(q) =>
                /\ requests'[q].status = 201
                /\ NewMessage(q) \in messages'
        /\ \A q \in 1..Len(requests) :
             requests[q].pc = "done" =>
                /\ requests'[q] = requests[q]
                /\ NewMessage(q) \in messages'
                /\ \A i \in 1..Len(emitted') :
                      IsNewMessage(emitted'[i]) => emitted'[i].msg.id # q
      ]_vars

\* a request was just answered 201 although its event went to a socket
\* whose peer is dead, so nobody got it
C11_Witness ==
    \E q \in 1..Len(requests) :
        /\ requests[q].pc = "done"
        /\ requests[q].status = 201
        /\ Len(emitted) = 1
        /\ IsNewMessage(emitted[1])
        /\ emitted[1].msg.id = q
        /\ emitted[1].to # {}
        /\ Reached(emitted[1]) = {}

Live(c) ==
    {s \in 1..Len(c.ios) : c.ios[s].status \in {"connecting", "connected"}}

\* C13 (single client connection): at every moment the client has at most
\* one socket that is open or connecting.
C13_SingleConnection == Cardinality(Live(client)) <= 1

\* ------------------------------------------------------------------ C14
\* the sum of f over the numbers of S
RECURSIVE Sum(_, _)
Sum(f, S) ==
    IF S = {} THEN 0
    ELSE LET x == CHOOSE y \in S : TRUE IN f[x] + Sum(f, S \ {x})

\* the newMessage handlers registered on the client's live sockets
Handlers(c) == Sum([s \in 1..Len(c.ios) |-> Len(c.ios[s].listeners)], Live(c))

\* C14 (no duplicate message handling): at every moment at most one
\* newMessage handler is registered across the client's live sockets.
C14_OneHandler == Handlers(client) <= 1

\* ------------------------------------------------------------------ C15
\* the connection attempts made so far: the failed ones and the running one
Attempts(c) ==
    Sum([s \in 1..Len(c.ios) |->
            c.ios[s].errors + IF c.ios[s].status = "connecting" THEN 1 ELSE 0],
        1..Len(c.ios))

\* C15 (bounded reconnect): while the server cannot be reached, the
\* attempts made after one connectSocket call stay within the first attempt
\* and the reconnectionAttempts of the socket it made.
C15_BoundedReconnect == Attempts(client) <= 1 + ReconnectionAttempts

\* ------------------------------------------------------------------ C16
\* C16 (connect only with a known identity): while authUser is null, so
\* before the first authentication and after a completed logOut, the client
\* has no socket that is open or connecting.
C16_KnownIdentity == client.authUser = JsNull => Live(client) = {}

\* ------------------------------------------------------------------ C17
\* nothing is pending in the client: no timeout, no request, no socket
\* that is still connecting
Settled(c) ==
    /\ c.timers = <<>>
    /\ c.http = "none"
    /\ \A s \in 1..Len(c.ios) : c.ios[s].status # "connecting"

\* C17 (resubscription): once nothing is pending, if a logged-in client
\* with a selected partner holds a connected socket in the store, a
\* newMessage handler for that partner is registered on that socket.
C17_Resubscribed ==
    ( /\ Settled(client)
      /\ client.authUser # JsNull
      /\ client.selectedUser # JsNull
      /\ SocketConnected(client) )
    => \E i \in 1..Len(client.ios[client.Socket].listeners) :
          client.ios[client.Socket].listeners[i] = client.selectedUser

\* ------------------------------------------------------------------ C18
\* the step taken is the handling of a newMessage event
ReceiveStep == Len(client'.messages) > Len(client.messages)

\* C18 (client-side filter): a newMessage event is appended to messages
\* only if its senderId is the partner selected when it is handled.
C18_ClientSideFilter ==
    [][ ReceiveStep =>
          \A i \in (Len(client.messages) + 1)..Len(client'.messages) :
             client'.messages[i].senderId = client.selectedUser
      ]_vars

\* ------------------------------------------------------------------ C19
\* the timeouts of callback fn that are due
Due(c, fn) ==
    {i \in 1..Len(c.timers) : c.timers[i].fn = fn /\ c.timers[i].left = 0}

\* the step taken runs a due retry of subscribeToMessages: only running a
\* timeout takes a due one away, and what it sets is put behind the rest
RetryStep ==
    Cardinality(Due(client', "subscribeToMessages"))
       = Cardinality(Due(client, "subscribeToMessages")) - 1

AuthenticatedStep ==
    /\ client.http \in {"checkAuth", "logIn", "signUp"}
    /\ client'.http = "none"
    /\ client'.authUser # JsNull

\* C20 (connect after authentication): the step in which checkAuth, logIn
\* or signUp succeeds calls connectSocket: unless the stored socket is
\* connected, the io() of a new socket is scheduled for the user.
C20_ConnectAfterAuth ==
    [][ (AuthenticatedStep /\ ~SocketConnected(client))
           => \E j \in (Len(client.timers) + 1)..Len(client'.timers) :
                 /\ client'.timers[j].fn = "io"
                 /\ client'.timers[j].authUser = client'.authUser
      ]_vars

\* ------------------------------------------------------------------ C21
\* the step taken is request q's catch block: the upload or the save threw
FailStep(q) ==
    /\ q \in 1..Len(requests)
    /\ Len(requests') = Len(requests)
    /\ requests[q].pc \in {"upload", "save"}
    /\ requests'[q].pc = "failed"

\* C21 (persistence precedes delivery): a newMessage event is emitted only
\* by the step that has persisted its message, so the message is in the
\* collection when the event goes out; the step in which the upload or the
\* save fails emits no event and leaves the registry and the collection
\* unchanged, and no later step emits an event for a failed request.
C21_PersistencePrecedesDelivery ==
    [][ /\ \A i \in 1..Len(emitted') :
              IsNewMessage(emitted'[i]) =>
                 /\ emitted'[i].msg \in messages'
                 /\ LookupStep(emitted'[i].msg.id)
                 /\ emitted'[i].msg = NewMessage(emitted'[i].msg.id)
        /\ \A q \in 1..Len(requests) :
              FailStep(q) =>
                 /\ emitted' = <<>>
                 /\ userSocketMap' = userSocketMap
                 /\ messages' = messages
        /\ \A q \in 1..Len(requests) :
              requests[q].pc = "failed" =>
                 /\ requests'[q].pc = "failed"
                 /\ \A i \in 1..Len(emitted') :
                       IsNewMessage(emitted'[i]) => emitted'[i].msg.id # q
      ]_vars

\* a request has just failed while its recipient holds a registry entry:
\* nothing was emitted and nothing was saved
C21_Witness ==
    \E q \in 1..Len(requests) :
        /\ requests[q].pc = "failed"
        /\ requests[q].status = 500
        /\ getReceiverSocketId(requests[q].recieverId) # NoSocket
        /\ emitted = <<>>
        /\ NewMessage(q) \notin messages

\* ------------------------------------------------------------------ C22
\* C22 (registry mutation is confined to the connection lifecycle): a step
\* that changes the registry is a connection handler, which sets the entry
\* of the new connection's identity, or a disconnect handler, which
\* removes the entry of the closing connection's identity; every step of
\* sendMessages, with its getReceiverSocketId lookup and its emit, leaves
\* the registry unchanged.
C22_RegistryFrame ==
    [][ /\ userSocketMap' # userSocketMap =>
              \/ /\ ConnectionStep
                 /\ LET c == Len(sockets')
                    IN /\ Truthy(sockets'[c].userId)
                       /\ userSocketMap' =
                             MapSet(userSocketMap,
                                    PropertyKey(sockets'[c].userId), c)
              \/ \E c \in 1..Len(sockets) :
                    /\ DisconnectStep(c)
                    /\ userSocketMap' =
                          MapDelete(userSocketMap,
                                    PropertyKey(sockets[c].userId))
        /\ requests' # requests => userSocketMap' = userSocketMap
      ]_vars

\* a message has just gone to its recipient's socket, and the two entries
\* of the registry are still there
C22_Witness ==
    /\ Len(userSocketMap) = 2
    /\ \E q \in 1..Len(requests) :
          /\ requests[q].pc = "done"
          /\ Len(emitted) = 1
          /\ IsNewMessage(emitted[1])
          /\ emitted[1].msg.id = q
          /\ MapGet(userSocketMap, requests[q].recieverId) \in emitted[1].to

\* ------------------------------------------------------------------ C23
\* the connections among ss whose handshake named k and that a newer
\* connection naming k has superseded
Superseded(ss, k) ==
    LET of == {c \in 1..Len(ss) :
                  Truthy(ss[c].userId) /\ PropertyKey(ss[c].userId) = k}
    IN {c \in of : \E d \in of : d > c}

\* C23 (superseded session is invalidated): no newMessage event addressed
\* to u reaches a connection of u after a newer connection of u has
\* registered, whether or not the newer one is still connected.
C23_SupersededInvalidated ==
    [][ \A i \in 1..Len(emitted') :
          IsNewMessage(emitted'[i]) =>
             emitted'[i].to
                 \cap Superseded(sockets',
                                 PropertyKey(emitted'[i].msg.recieverId))
               = {}
      ]_vars

\* u1's first connection is still open, its second one has come and gone,
\* and the message for u1 answered just now was emitted to nobody
C23_Witness ==
    /\ Len(sockets) = 2
    /\ SocketsOf("u1") = {1, 2}
    /\ sockets[1].connected
    /\ ~sockets[2].connected
    /\ emitted = <<>>
    /\ \E q \in 1..Len(requests) :
          /\ requests[q].pc = "done"
          /\ requests[q].recieverId = "u1"

\* ------------------------------------------------------------------ C24
\* the server with logged-in clients only and requests without attachment,
\* its history kept, the arrival of each request included
NextDelivery ==
    \/ \E u \in Users :
          Connection(u, u) /\ Emitted /\ Ran("connection", Len(sockets'))
    \/ \E c \in 1..MaxConns : Disconnect(c) /\ Emitted /\ Ran("disconnect", c)
    \/ \E i \in SendInputs :
          /\ ~i[3]
          /\ sendMessages(i[1], i[2], i[3])
          /\ Emitted
          /\ Ran("sendMessages", Len(requests'))
    \/ \E q \in 1..MaxMsgs : SaveOk(q) /\ Emitted /\ UNCHANGED trace
    \/ \E q \in 1..MaxMsgs : SaveFail(q) /\ Emitted /\ UNCHANGED trace

SpecDelivery == Init /\ [][NextDelivery]_vars

\* the presence that was broadcast last when the first k entries of the
\* trace had run
PresenceAt(k) ==
    LET n == Cardinality({j \in 1..k : trace[j].op # "sendMessages"})
    IN IF n = 0 THEN <<>> ELSE Broadcasts[n].payload

\* C24 (delivery uses the registry at delivery time): for an answered
\* request, a newMessage event exists exactly when the registry, as it was
\* at the lookup after the save, held an entry for the recipient, and the
\* event then went to the socket of that entry; what the presence was when
\* the request arrived plays no part.
C24_RegistryAtDeliveryTime ==
    \A q \in 1..Len(requests) :
        requests[q].pc = "done" =>
           LET registry == RegistryAt(requests[q].lookupAt)
               sid == MapGet(registry, PropertyKey(requests[q].recieverId))
           IN /\ ObjectKeys(registry) = PresenceAt(requests[q].lookupAt)
              /\ IF sid = NoSocket
                 THEN NewMessageEvents(q) = {}
                 ELSE /\ Cardinality(NewMessageEvents(q)) = 1
                      /\ \A i \in NewMessageEvents(q) :
                            /\ events[i].to = {sid}
                            /\ events[i].msg = NewMessage(q)

\* the recipient was not in the presence broadcast last when the request
\* arrived, connected while the message was being saved, and got the event
C24_Witness ==
    \E q \in 1..Len(requests) :
        /\ requests[q].pc = "done"
        /\ ArrivedAt(q) < requests[q].lookupAt
        /\ requests[q].recieverId \notin Range(PresenceAt(ArrivedAt(q)))
        /\ requests[q].recieverId
              \in Range(PresenceAt(requests[q].lookupAt))
        /\ NewMessageEvents(q) # {}

\* ------------------------------------------------------------------ C25
\* the open connections whose handshake carried no userId
Unidentified == {c \in Connected(sockets) : ~Truthy(sockets[c].userId)}

\* C25 (unidentified connections are closed): as long as a connection that
\* supplied no identity is open, it is not an active session: no registry
\* entry names it, and no getOnlineUsers broadcast goes to it.
C25_UnidentifiedInactive ==
    \A c \in Unidentified :
        /\ \A i \in 1..Len(userSocketMap) : userSocketMap[i].v # c
        /\ \A i \in 1..Len(emitted) :
              IsGetOnlineUsers(emitted[i]) => c \notin emitted[i].to

\* ------------------------------------------------------------------ C26
\* the client end of a new connection: onlineUsers: [] and nothing in flight
ClientEnd == [inbox |-> <<>>, onlineUsers |-> <<>>]

\* the payloads of the getOnlineUsers events among es that go to socket c
RECURSIVE PayloadsFor(_, _)
PayloadsFor(es, c) ==
    IF es = <<>> THEN <<>>
    ELSE IF IsGetOnlineUsers(Head(es)) /\ c \in Head(es).to
         THEN <<Head(es).payload>> \o PayloadsFor(Tail(es), c)
         ELSE PayloadsFor(Tail(es), c)

\* the transport: what the handler emitted is queued, in order, on the
\* connection of each socket it went to; a closed connection carries nothing
Transmit ==
    presence' =
        [c \in 1..Len(sockets') |->
            LET end == IF c <= Len(presence) THEN presence[c] ELSE ClientEnd
            IN IF sockets'[c].connected
               THEN [end EXCEPT !.inbox = @ \o PayloadsFor(emitted', c)]
               ELSE [end EXCEPT !.inbox = <<>>]]

\* a client that handles the event that arrived last before the others
getOnlineUsersNewestFirst(c) ==
    /\ c \in 1..Len(presence)
    /\ presence[c].inbox # <<>>
    /\ LET n == Len(presence[c].inbox)
       IN presence' =
              [presence EXCEPT ![c] =
                  [inbox |-> SubSeq(presence[c].inbox, 1, n - 1),
                   onlineUsers |-> presence[c].inbox[n]]]
    /\ UNCHANGED <<server, history, client, db>>

\* socket.on("getOnlineUsers", (onlineUsersIds) => set({ onlineUsers }))
\* runs for the event at the head of the connection
getOnlineUsers(c) ==
    /\ c \in 1..Len(presence)
    /\ presence[c].inbox # <<>>
    /\ presence' =
           [presence EXCEPT ![c] =
               [inbox |-> Tail(presence[c].inbox),
                onlineUsers |-> Head(presence[c].inbox)]]
    /\ UNCHANGED <<server, history, client, db>>

\* the server's connections with the client ends that hear its broadcasts
NextPresence ==
    \/ \E h \in Handshakes :
          Connection(h[1], h[2]) /\ Transmit
              /\ UNCHANGED <<history, dead, client, db>>
    \/ \E c \in 1..MaxConns :
          Disconnect(c) /\ Transmit
              /\ UNCHANGED <<history, dead, client, db>>
    \/ \E c \in 1..MaxConns : getOnlineUsers(c)

SpecPresence == Init /\ [][NextPresence]_vars

\* the same, when a client's event loop runs the handler of every event
\* that has arrived
SpecPresenceFair ==
    SpecPresence /\ \A c \in 1..MaxConns : WF_vars(getOnlineUsers(c))

\* every connected client holds the key list of the server registry
Consistent ==
    \A c \in Connected(sockets) :
        presence[c].onlineUsers = ObjectKeys(userSocketMap)

\* C26 (eventual presence consistency): with each connection delivering in
\* order, from some point on (when the connects and disconnects have ended
\* and the events sent have been handled) the onlineUsers of every
\* connected client is the key list of the server registry, for good.
C26_PresenceConsistency == <>[]Consistent

\* two clients are connected, one session has come or gone since the first
\* connected, every event has arrived, and both hold the registry's keys
C26_Witness ==
    /\ Cardinality(Connected(sockets)) = 2
    /\ userSocketMap # <<>>
    /\ \A c \in Connected(sockets) :
          /\ presence[c].inbox = <<>>
          /\ presence[c].onlineUsers = ObjectKeys(userSocketMap)

\* ------------------------------------------------------------------ C27
\* useChatStore.sendMessages up to its await: { selectedUser, messages } =
\* get() is read now, then the POST to /messages/send/:id is on its way
sendMessagesCall(c) ==
    [c EXCEPT !.posts = Append(@, [to |-> c.selectedUser,
                                   messages |-> c.messages,
                                   pc |-> "pending"])]

\* the submit of MessageInput, which ChatWindow shows for a selected user
Send ==
    /\ client.authUser # JsNull
    /\ client.selectedUser # JsNull
    /\ Becomes(sendMessagesCall(client))

\* the saved message the server answers the i-th call with
ResData(c, i) == [id |-> Len(c.messages) + 1, senderId |-> c.authUser]

\* the POST resolved: set({ messages: [...messages, res.data] }), with the
\* messages read before the await
SendOk(i) ==
    /\ i \in 1..Len(client.posts)
    /\ client.posts[i].pc = "pending"
    /\ Becomes([client EXCEPT
          !.posts[i].pc = "done",
          !.messages = Append(client.posts[i].messages, ResData(client, i))])

\* the POST rejected: a toast
SendFail(i) ==
    /\ i \in 1..Len(client.posts)
    /\ client.posts[i].pc = "pending"
    /\ Becomes([client EXCEPT !.posts[i].pc = "failed"])

\* the step stays within the chat of one logged-in user with one socket
WithinChat ==
    /\ Sockets(client') <= 1
    /\ client'.selects <= MaxSelects
    /\ Len(client'.posts) <= MaxPosts
    /\ Len(client'.messages) <= MaxChat

\* one user who stays logged in, chats with the partners and sends; the
\* socket connects at once and stays; the history loads are not followed
NextChat ==
    \/ Request("checkAuth") /\ WithinChat
    \/ CheckAuthOk /\ WithinChat
    \/ Tick /\ WithinChat
    \/ \E i \in 1..Len(client.timers) : Fire(i) /\ WithinChat
    \/ ConnectOk(1) /\ WithinChat
    \/ \E p \in Partners : SelectUser(p) /\ WithinChat
    \/ CloseChat /\ WithinChat
    \/ \E sender \in Partners : Receive(sender) /\ WithinChat
    \/ Send /\ WithinChat
    \/ \E i \in 1..MaxPosts : SendOk(i) /\ WithinChat
    \/ \E i \in 1..MaxPosts : SendFail(i) /\ WithinChat

SpecChat == Init /\ [][NextChat]_vars

\* the step taken is the successful completion of the i-th sendMessages
SendOkStep(i) ==
    /\ i \in 1..Len(client.posts)
    /\ client.posts[i].pc = "pending"
    /\ client'.posts[i].pc = "done"

\* C27 (local append without loss): when sendMessages succeeds, the
\* messages list is the list as it was at the completion with the returned
\* message appended at its end, so what newMessage events appended while
\* the request was in flight is still there.
C27_AppendWithoutLoss ==
    [][ \A i \in 1..Len(client.posts) :
          SendOkStep(i) =>
             /\ Len(client'.messages) = Len(client.messages) + 1
             /\ SubSeq(client'.messages, 1, Len(client.messages))
                   = client.messages
             /\ client'.messages[Len(client'.messages)].senderId
                   = client.authUser
      ]_vars

\* ------------------------------------------------------------------ C28
\* C28 (no dangling registry entry): every registry entry holds the socket
\* id of a connection that is open, connected and not yet disconnected.
C28_NoDanglingEntry ==
    \A i \in 1..Len(userSocketMap) :
        userSocketMap[i].v \in Connected(sockets)

\* u1's first connection has closed, a second one has connected since and
\* holds u1's entry
C28_Witness ==
    /\ Len(sockets) = 2
    /\ SocketsOf("u1") = {1, 2}
    /\ ~sockets[1].connected
    /\ sockets[2].connected
    /\ getReceiverSocketId("u1") = 2

\* ------------------------------------------------------------------ C29
\* what GET /messages/:id answers for the chat with p: the conversation as
\* stored, here one message that p has sent
History(p) == <<[id |-> 1, senderId |-> p]>>

\* useChatStore.getMessages up to its await: the GET is on its way
getMessages(c, userId) ==
    [c EXCEPT !.gets = Append(@, [userId |-> userId, pc |-> "pending"])]

\* the effect of ChatWindow in full: getMessages(selectedUser._id), then
\* subscribeToMessages()
ChatWindowLoads(c) ==
    IF c.authUser # JsNull /\ c.selectedUser # JsNull
    THEN subscribeToMessages(getMessages(c, c.selectedUser)) ELSE c

\* a click in the side bar, with the history load followed:
\* setSelectedUser(p); ChatWindow's effect is cleaned up if it was mounted
\* and runs again
OpenChat(p) ==
    /\ client.authUser # JsNull
    /\ client.selectedUser # p
    /\ LET c == [client EXCEPT !.selectedUser = p, !.selects = @ + 1]
       IN Becomes(ChatWindowLoads(
             IF client.selectedUser # JsNull
             THEN unsubscribeFromMessages(c) ELSE c))

\* the i-th GET resolved: set({ messages: res.data })
GetMessagesOk(i) ==
    /\ i \in 1..Len(client.gets)
    /\ client.gets[i].pc = "pending"
    /\ Becomes([client EXCEPT !.gets[i].pc = "done",
                              !.messages = History(client.gets[i].userId)])

\* the i-th GET rejected: a toast
GetMessagesFail(i) ==
    /\ i \in 1..Len(client.gets)
    /\ client.gets[i].pc = "pending"
    /\ Becomes([client EXCEPT !.gets[i].pc = "failed"])

\* the step stays within the run of one user who reads, with one socket
WithinLoad ==
    /\ Sockets(client') <= 1
    /\ client'.selects <= MaxLoads

\* one user who stays logged in and opens chats, while no message is
\* written: every history load is followed, answered in any order
NextLoad ==
    \/ Request("checkAuth") /\ WithinLoad
    \/ CheckAuthOk /\ WithinLoad
    \/ Tick /\ WithinLoad
    \/ \E i \in 1..Len(client.timers) : Fire(i) /\ WithinLoad
    \/ ConnectOk(1) /\ WithinLoad
    \/ \E p \in Partners : OpenChat(p) /\ WithinLoad
    \/ CloseChat /\ WithinLoad
    \/ \E i \in 1..MaxLoads : GetMessagesOk(i) /\ WithinLoad
    \/ \E i \in 1..MaxLoads : GetMessagesFail(i) /\ WithinLoad

SpecLoad == Init /\ [][NextLoad]_vars

\* C29 (history matches the selected partner): when no getMessages request
\* is in flight any more and the one made for the selected user was
\* answered, the messages list is the history of the selected user,
\* whatever the order of the answers.
C29_HistoryOfSelected ==
    ( /\ client.selectedUser # JsNull
      /\ client.gets # <<>>
      /\ \A i \in 1..Len(client.gets) : client.gets[i].pc # "pending"
      /\ client.gets[Len(client.gets)].pc = "done" )
    => /\ client.gets[Len(client.gets)].userId = client.selectedUser
       /\ client.messages = History(client.selectedUser)

\* ------------------------------------------------------------------ C30
\* the step stays within the run of one user who logs out and in
WithinSession ==
    /\ Sockets(client') <= MaxSessionSockets
    /\ client'.authCalls <= MaxSessionAuthCalls
    /\ client'.selects <= MaxSelects

\* one user who logs in and out against a server that accepts every
\* socket, while the auth requests succeed or fail
NextSession ==
    \/ \E kind \in {"checkAuth", "logIn", "logOut"} :
          Request(kind) /\ WithinSession
    \/ CheckAuthOk /\ WithinSession
    \/ CheckAuthFail /\ WithinSession
    \/ LogInOk /\ WithinSession
    \/ LogOutOk /\ WithinSession
    \/ RequestFail /\ WithinSession
    \/ \E p \in Partners : SelectUser(p) /\ WithinSession
    \/ Tick /\ WithinSession
    \/ \E i \in 1..Len(client.timers) : Fire(i) /\ WithinSession
    \/ \E s \in 1..MaxSessionSockets : ConnectOk(s) /\ WithinSession

SpecSession == Init /\ [][NextSession]_vars

\* the step taken is the end of a logOut call, resolved or rejected
LogOutStep == client.http = "logOut" /\ client'.http = "none"

\* C30 (logOut is all-or-nothing): a logOut call ends in one of two ways.
\* Either authUser is null, Socket is null and the socket that was stored
\* is disconnected; or authUser and Socket are what they were and every
\* socket is in the state it was in, a connected one still connected.
C30_LogOutAllOrNothing ==
    [][ LogOutStep =>
          IF client'.authUser = JsNull
          THEN /\ client'.Socket = NoSocket
               /\ client.Socket # NoSocket
                     => client'.ios[client.Socket].status = "closed"
          ELSE /\ client'.authUser = client.authUser
               /\ client'.Socket = client.Socket
               /\ client'.ios = client.ios
               /\ SocketConnected(client) => SocketConnected(client')
      ]_vars

\* the user has logged out: authUser and Socket are null, and the socket
\* that was connected when the request was answered is disconnected
C30_Witness ==
    /\ client.authUser = JsNull
    /\ client.Socket = NoSocket
    /\ client.http = "none"
    /\ client.registered = NoSocket
    /\ \E s \in 1..Len(client.ios) : client.ios[s].status = "closed"

\* ------------------------------------------------------------------ C31
\* connectDB up to its await (MONGODB_URI is set): return cached.conn if
\* there is one; start mongoose.connect if no promise is cached; then
\* await cached.promise, which queues the rest of the call at once when
\* that promise has settled already
connectDB(d) ==
    LET i == Len(d.calls) + 1
    IN IF d.conn # NoConnect
       THEN [d EXCEPT !.calls = Append(@, [pc |-> "returned",
                                           on |-> NoConnect, got |-> d.conn])]
       ELSE LET e == IF d.promise = NoConnect
                     THEN [d EXCEPT !.connects = Append(@, "pending"),
                                    !.promise = Len(d.connects) + 1]
                     ELSE d
                p == e.promise
            IN [e EXCEPT
                  !.calls = Append(@, [pc |-> "await", on |-> p,
                                       got |-> NoConnect]),
                  !.jobs = IF e.connects[p] = "pending" THEN @
                           ELSE Append(@, [kind |-> "resume", call |-> i,
                                           hops |-> 0])]

\* the rest of call i, after its await: cached.conn = the connection and
\* return it; or catch: cached.promise = null and throw
resume(d, i) ==
    LET p == d.calls[i].on
    IN IF d.connects[p] = "resolved"
       THEN [d EXCEPT !.conn = p, !.calls[i].pc = "returned",
                      !.calls[i].got = p]
       ELSE [d EXCEPT !.promise = NoConnect, !.calls[i].pc = "threw"]

\* the database goes to d; nothing else is involved
DbBecomes(d) ==
    /\ db' = d
    /\ UNCHANGED <<server, history, client, presence>>

\* application code schedules a connectDB call that is n promise hops
\* away: the code of the job that ran last (a caller, or the continuation
\* of a caller whose call returned or threw), or a request handler in a
\* turn of its own when no job is left
Schedule(n) ==
    /\ ~db.driver \/ db.jobs = <<>>
    /\ DbBecomes([db EXCEPT !.driver = FALSE,
                            !.jobs = Append(@, [kind |-> "call", call |-> 0,
                                                hops |-> n])])

\* the job at the head of the queue runs: one hop of a caller, a
\* connectDB call up to its await, or the rest of a call after its await
RunJob ==
    /\ db.jobs # <<>>
    /\ LET j == Head(db.jobs)
           d == [db EXCEPT !.jobs = Tail(@), !.driver = FALSE]
       IN DbBecomes(
             CASE j.kind = "call" /\ j.hops > 0 ->
                     [d EXCEPT !.jobs = Append(@, [j EXCEPT !.hops = @ - 1])]
               [] j.kind = "call" /\ j.hops = 0 -> connectDB(d)
               [] j.kind = "resume" -> resume(d, j.call))

\* the calls waiting for connect p, in the order they began to wait
RECURSIVE Waiting(_, _, _)
Waiting(calls, p, i) ==
    IF i > Len(calls) THEN <<>>
    ELSE IF calls[i].pc = "await" /\ calls[i].on = p
         THEN <<[kind |-> "resume", call |-> i, hops |-> 0]>>
                 \o Waiting(calls, p, i + 1)
         ELSE Waiting(calls, p, i + 1)

\* mongoose.connect p settles and the calls waiting for it are queued.  It
\* resolves after network traffic, so in a turn of its own; it can reject
\* without any (an option or a URI the driver refuses), so also while other
\* jobs are waiting to run
Settle(p, outcome) ==
    /\ p \in 1..Len(db.connects)
    /\ db.connects[p] = "pending"
    /\ outcome = "resolved" => db.jobs = <<>>
    /\ DbBecomes([db EXCEPT !.connects[p] = outcome,
                            !.driver = TRUE,
                            !.jobs = @ \o Waiting(db.calls, p, 1)])

\* the connectDB calls made or scheduled
DbCalls(d) ==
    Len(d.calls) + Cardinality({k \in 1..Len(d.jobs) : d.jobs[k].kind = "call"})

\* the step stays within the calls and the connects of the run
WithinDb ==
    /\ DbCalls(db') <= MaxDbCalls
    /\ Len(db'.connects) <= MaxConnects

\* the module lib/db.js under concurrent callers
NextDb ==
    \/ \E n \in 0..MaxHops : Schedule(n) /\ WithinDb
    \/ RunJob /\ WithinDb
    \/ \E p \in 1..MaxConnects :
          \E outcome \in {"resolved", "rejected"} :
             Settle(p, outcome) /\ WithinDb

SpecDb == Init /\ [][NextDb]_vars

\* the connects that are pending or have succeeded
Alive(d) ==
    {p \in 1..Len(d.connects) : d.connects[p] \in {"pending", "resolved"}}

\* C31 (connectDB is single-flight): at most one mongoose.connect has been
\* started that is pending or has succeeded; every call that returned got
\* the connection of a connect that succeeded, the same one for all; and a
\* call that waited for a connect that failed has thrown, not returned.
C31_SingleFlight ==
    /\ Cardinality(Alive(db)) <= 1
    /\ \A i \in 1..Len(db.calls) :
          db.calls[i].pc = "returned" =>
             /\ db.connects[db.calls[i].got] = "resolved"
             /\ \A j \in 1..Len(db.calls) :
                   db.calls[j].pc = "returned"
                       => db.calls[j].got = db.calls[i].got

=============================================================================
